---------------------------- MODULE Spec2Model ----------------------------
(***************************************************************************)
(* The glTF importer (gltf-importer): Import::custom, the format           *)
(* dispatcher, the standard import pipeline (parse, validate, resolve,     *)
(* decode, assemble) and the Error model.                                  *)
(*                                                                         *)
(* The Import is a future: Import::custom builds the chain and one poll   *)
(* runs it until a future it waits on is not ready.  The positions between *)
(* the closures of the chain (pc) are separate steps here, so that the     *)
(* order of the stages is visible; the futures the Source hands out        *)
(* resolve in steps of their own, in any order.                            *)
(*                                                                         *)
(* Rust indices are 0-based and are kept 0-based in the records; the TLA+  *)
(* sequences that hold the vectors are 1-based, so entry i of a vector is  *)
(* element i + 1 of the sequence.  Option<T> is a sequence of length <= 1: *)
(* None is << >> and Some(x) is << x >>.                                   *)
(***************************************************************************)
EXTENDS Integers, Sequences, FiniteSets, TLC

(* ------------------------------- bounds -------------------------------- *)

\* longest root byte string that is enumerated byte by byte
MaxData == 5
\* most buffer entries, buffer views and image entries of a document
MaxBuffers == 2
MaxViews == 1
MaxImages == 2
\* largest byte offset of a buffer view, longest blob a fetch returns
MaxOffset == 1
MaxLen == 2

(* ------------------------------ Option<T> ------------------------------ *)

None == << >>
Some(x) == << x >>
IsSome(o) == Len(o) > 0
IsNone(o) == Len(o) = 0
Unwrap(o) == o[1]
Opt(S) == {None} \cup {Some(x) : x \in S}

SeqUpTo(S, n) == UNION {[1..k -> S] : k \in 0..n}

(* ----------------------------- root bytes ------------------------------ *)

\* ASCII "g", "l", "T", "F" and "{"
Magic == << 103, 108, 84, 70 >>
ByteValues == {103, 108, 84, 70, 123}

(* ----------------------------- the document ---------------------------- *)

BufferURIs == {"a.bin", "b.bin"}
ImageURIs == {"a.bin"}
MimeTypes == {"image/jpeg", "image/png", "image/gif"}

BufferEntries == [uri : Opt(BufferURIs)]
BufferViews == [buffer : 0..(MaxBuffers - 1),
                byte_offset : 0..MaxOffset,
                byte_length : {1}]
ImageEntries == [uri : Opt(ImageURIs),
                 buffer_view : Opt(0..(MaxViews - 1)),
                 mime_type : Opt(MimeTypes)]

\* json::Root, as far as the importer reads it
Documents == [buffers : SeqUpTo(BufferEntries, MaxBuffers),
              buffer_views : SeqUpTo(BufferViews, MaxViews),
              images : SeqUpTo(ImageEntries, MaxImages)]

ValidationStrategy == {"Skip", "Minimal", "Complete"}


(* ------------------------------ the source ----------------------------- *)

\* the first bytes of a serialized JSON root: {"as
JsonHead == << 123, 34, 97, 115 >>

\* The byte strings source_gltf can resolve to.  A short string is given
\* byte by byte and encodes no document; a serialized document is given by
\* its first bytes and the json::Root that its text encodes.
ShortData == [head : SeqUpTo(ByteValues, MaxData), json : {None}]
JsonData == [head : {JsonHead}, json : {Some(d) : d \in Documents}]
RootData == ShortData \cup JsonData
NoData == [head |-> << >>, json |-> None]

\* the blob a fetch of uri resolves to when it returns n bytes
FetchedBytes(uri, n) == [i \in 1..n |-> << uri, i >>]

(* ---------------------------- the Error enum --------------------------- *)

Variants == {"Decode", "ExtensionDisabled", "ExtensionUnsupported",
             "IncompatibleVersion", "Io", "MalformedGlb", "MalformedJson",
             "Shared", "Source", "Validation"}

\* An Error value: its variant, the wrapped error (the position in calls of
\* the Source call whose future failed, for Source; the text or diagnostic
\* otherwise), the violation list (Validation) and the enveloped error's
\* variant (Shared).
Error(variant, wrapped, errs, inner) ==
    [variant |-> variant, wrapped |-> wrapped, errs |-> errs, inner |-> inner]

ErrorSource(call) == Error("Source", Some(call), << >>, None)
ErrorShared(e) == Error("Shared", e.wrapped, << >>, Some(e.variant))
ErrorMalformedJson == Error("MalformedJson", Some(0), << >>, None)
ErrorMalformedGlb == Error("MalformedGlb", Some(0), << >>, None)
ErrorDecode(image) == Error("Decode", Some(image), << >>, None)
ErrorValidation(errs) == Error("Validation", None, errs, None)

NoError == Error("None", None, << >>, None)

Pending == [state |-> "pending", error |-> NoError]
Ok == [state |-> "ok", error |-> NoError]
Err(e) == [state |-> "err", error |-> e]
\* an abrupt termination: a panic unwinding out of poll
Panic(what) == [state |-> "panic", error |-> Error(what, None, << >>, None)]

(* ------------------------------- state --------------------------------- *)

VARIABLES
    pc,           \* position of the Import task
    config,       \* Config: the validation strategy
    gltf_future,  \* the future source_gltf returned: none/pending/ready/failed
    data,         \* the root bytes the task holds
    path,         \* the import function the dispatcher entered
    json,         \* the json::Root the task holds (Some) or not (None)
    calls,        \* the Source operations invoked so far, in order, each
                  \* with the document entry it was invoked for
    futures,      \* the futures source_external_data returned, in call order
    buffers,      \* Vec<data::Async>: for each buffer entry, its future
    images,       \* Vec<AsyncImage>
    joined,       \* what the join handed on: Vec<Data> and Vec<EncodedImage>
    decoded,      \* the decoder invocations made so far, in order
    result,       \* what poll has returned (or how it ended)
    inspected     \* an Error in the caller's hands, and what it was asked

vars == << pc, config, gltf_future, data, path, json, calls, futures,
           buffers, images, joined, decoded, result, inspected >>

NotJoined == [buffers |-> << >>, images |-> << >>]

\* an Error of which nothing has been asked yet
Inspect(e) == [error |-> e, asked |-> {}, description |-> "", cause |-> None]

Init ==
    /\ pc = "new"
    /\ inspected = Inspect(NoError)
    /\ config \in [validation_strategy : ValidationStrategy]
    /\ gltf_future = "none"
    /\ data = NoData
    /\ path = "none"
    /\ json = None
    /\ calls = << >>
    /\ futures = << >>
    /\ buffers = << >>
    /\ images = << >>
    /\ joined = NotJoined
    /\ decoded = << >>
    /\ result = Pending

(* --------------------------- Import::custom ---------------------------- *)

\* starts_with without the length test: a short slice matches when the
\* bytes it has agree with the needle
starts_with_unchecked(bytes, needle) ==
    \A i \in 1..Len(needle) : i <= Len(bytes) => bytes[i] = needle[i]

\* slice::starts_with
starts_with(bytes, needle) ==
    /\ Len(needle) <= Len(bytes)
    /\ \A i \in 1..Len(needle) : bytes[i] = needle[i]

\* a constructor that only records the source and leaves the source_gltf
\* call to the first poll
custom_deferring_source_gltf ==
    /\ pc = "new"
    /\ gltf_future' = "pending"
    /\ pc' = "source_gltf"
    /\ UNCHANGED << inspected, config, data, path, json, calls, futures, buffers,
                    images, joined, decoded, result >>

\* Import::custom: source_gltf is invoked here, the dispatch closure is
\* only attached to the future it returns.
custom ==
    /\ pc = "new"
    /\ calls' = Append(calls, [op |-> "source_gltf", uri |-> None,
                                  field |-> "root", index |-> 0])
    /\ gltf_future' = "pending"
    /\ pc' = "source_gltf"
    /\ UNCHANGED << inspected, config, data, path, json, futures, buffers, images,
                    joined, decoded, result >>

\* The future returned by source_gltf resolves to bytes or to an error.
source_gltf_resolves ==
    /\ pc = "source_gltf"
    /\ gltf_future = "pending"
    /\ \/ /\ \E d \in RootData : data' = d
          /\ gltf_future' = "ready"
       \/ /\ gltf_future' = "failed"
          /\ data' = data
    /\ UNCHANGED << inspected, pc, config, path, json, calls, futures, buffers, images,
                    joined, decoded, result >>

\* The binary tag decides the import function.
dispatch(bytes) == IF starts_with(bytes, Magic) THEN "binary" ELSE "standard"

\* a poll that takes a failed root fetch for an empty byte string and goes on
\* to dispatch
poll_source_gltf_defaulting ==
    /\ pc = "source_gltf"
    /\ \/ /\ gltf_future = "pending"
          /\ UNCHANGED << pc, path >>
       \/ /\ gltf_future \in {"failed", "ready"}
          /\ path' = dispatch(data.head)
          /\ pc' = IF path' = "binary" THEN "binary" ELSE "parse"
    /\ UNCHANGED << inspected, config, gltf_future, data, json, calls, futures, buffers,
                    images, joined, decoded, result >>

\* poll of source_gltf().map_err(Error::Source).and_then(dispatch closure)
\* while the root future is the running half of the chain.
poll_source_gltf ==
    /\ pc = "source_gltf"
    /\ \/ /\ gltf_future = "pending"
          /\ UNCHANGED << pc, path, result >>
       \/ /\ gltf_future = "failed"
          /\ result' = Err(ErrorSource(1))
          /\ pc' = "done"
          /\ path' = path
       \/ /\ gltf_future = "ready"
          /\ path' = dispatch(data.head)
          /\ pc' = IF path' = "binary" THEN "binary" ELSE "parse"
          /\ result' = result
    /\ UNCHANGED << inspected, config, gltf_future, data, json, calls, futures, buffers,
                    images, joined, decoded >>

(* --------------------------- binary::import ---------------------------- *)

\* The binary importer, entered with bytes that begin with the tag.  Every
\* tagged byte string of RootData is shorter than a .glb header.
binary_import ==
    /\ pc = "binary"
    /\ result' = Err(ErrorMalformedGlb)
    /\ pc' = "done"
    /\ data' = NoData
    /\ UNCHANGED << inspected, config, gltf_future, path, json, calls, futures, buffers,
                    images, joined, decoded >>

(* -------------------------- standard::import --------------------------- *)

\* json::from_reader: Some(root) for the text of a document, None for an
\* error.
from_reader(bytes) == bytes.json

\* a parse closure that takes bytes it cannot deserialize for a document
\* without entries
parse_lenient ==
    /\ pc = "parse"
    /\ json' = IF IsSome(from_reader(data))
               THEN from_reader(data)
               ELSE Some([buffers |-> << >>, buffer_views |-> << >>, images |-> << >>])
    /\ pc' = "validate"
    /\ data' = NoData
    /\ UNCHANGED << inspected, config, gltf_future, path, calls, futures, buffers,
                    images, joined, decoded, result >>

\* stage 1, the future::lazy closure
parse ==
    /\ pc = "parse"
    /\ IF IsSome(from_reader(data))
       THEN /\ json' = from_reader(data)
            /\ pc' = "validate"
            /\ result' = result
       ELSE /\ json' = json
            /\ pc' = "done"
            /\ result' = Err(ErrorMalformedJson)
    /\ data' = NoData
    /\ UNCHANGED << inspected, config, gltf_future, path, calls, futures, buffers,
                    images, joined, decoded >>

(* the validator: Validate::validate_minimally / validate_completely *)

RECURSIVE Concat(_)
Concat(ss) == IF ss = << >> THEN << >> ELSE Head(ss) \o Concat(Tail(ss))

Violation(field, index, member, kind) ==
    [path |-> [field |-> field, index |-> index, member |-> member],
     error |-> kind]

When(cond, violation) == IF cond THEN << violation >> ELSE << >>

RecognisedMimeTypes == {"image/jpeg", "image/png"}

BufferViewMinimal(root, i) ==
    When(root.buffer_views[i + 1].buffer >= Len(root.buffers),
         Violation("bufferViews", i, "buffer", "IndexOutOfBounds"))

ImageMinimal(root, j) ==
    LET e == root.images[j + 1] IN
    When(IsSome(e.buffer_view) /\ Unwrap(e.buffer_view) >= Len(root.buffer_views),
         Violation("images", j, "bufferView", "IndexOutOfBounds"))

ImageComplete(root, j) ==
    LET e == root.images[j + 1] IN
    ImageMinimal(root, j)
    \o When(IsSome(e.mime_type) /\ Unwrap(e.mime_type) \notin RecognisedMimeTypes,
            Violation("images", j, "mimeType", "Invalid"))
    \o When(IsNone(e.uri) /\ IsSome(e.buffer_view) /\ IsNone(e.mime_type),
            Violation("images", j, "mimeType", "Missing"))
    \o When(IsNone(e.uri) /\ IsNone(e.buffer_view),
            Violation("images", j, "uri", "Missing"))
    \o When(IsSome(e.uri) /\ IsSome(e.buffer_view),
            Violation("images", j, "bufferView", "Invalid"))

\* the violations in the order the walk of the document reports them
validate_minimally(root) ==
    Concat([i \in 1..Len(root.buffer_views) |-> BufferViewMinimal(root, i - 1)])
    \o Concat([j \in 1..Len(root.images) |-> ImageMinimal(root, j - 1)])

validate_completely(root) ==
    Concat([i \in 1..Len(root.buffer_views) |-> BufferViewMinimal(root, i - 1)])
    \o Concat([j \in 1..Len(root.images) |-> ImageComplete(root, j - 1)])

\* a validation closure whose Skip arm runs the minimal checks all the same
CollectedNeverSkips(strategy, root) ==
    CASE strategy = "Complete" -> validate_completely(root)
      [] OTHER -> validate_minimally(root)

\* what the validation closure collects in errs
Collected(strategy, root) ==
    CASE strategy = "Skip" -> << >>
      [] strategy = "Minimal" -> validate_minimally(root)
      [] strategy = "Complete" -> validate_completely(root)

\* validation that stops at the first violation
ValidatedFailFast(strategy, root) ==
    LET errs == Collected(strategy, root) IN
    IF errs = << >> THEN Ok ELSE Err(ErrorValidation(<< Head(errs) >>))

\* the future the validation closure returns: ok(Root::new(json)) or err
Validated(strategy, root) ==
    LET errs == Collected(strategy, root) IN
    IF errs = << >> THEN Ok ELSE Err(ErrorValidation(errs))

\* stage 2, the first and_then closure
validate ==
    /\ pc = "validate"
    /\ LET outcome == Validated(config.validation_strategy, Unwrap(json)) IN
       IF outcome.state = "ok"
       THEN /\ pc' = "source_buffers"
            /\ result' = result
       ELSE /\ pc' = "done"
            /\ result' = outcome
    /\ UNCHANGED << inspected, config, gltf_future, data, path, json, calls, futures,
                    buffers, images, joined, decoded >>

(* stage 3: resolve references *)

Min(S) == CHOOSE x \in S : \A y \in S : x <= y

ExternalCall(uri, field, index) ==
    [op |-> "source_external_data", uri |-> Some(uri),
     field |-> field, index |-> index]
NewFuture(uri) == [uri |-> uri, state |-> "pending", len |-> 0]

\* the entries of seq (1-based positions) before position stop that satisfy P,
\* in order
RECURSIVE PositionsBefore(_, _, _)
PositionsBefore(flags, from, stop) ==
    IF from >= stop THEN << >>
    ELSE (IF flags[from] THEN << from >> ELSE << >>)
         \o PositionsBefore(flags, from + 1, stop)

\* source_buffers: the iterator visits the buffer entries in order; for
\* each it unwraps the uri and invokes source_external_data.  Returns the
\* position (1-based) of the entry whose unwrap panics, or 0.
BufferPanicsAt(root) ==
    LET bad == {i \in 1..Len(root.buffers) : IsNone(root.buffers[i].uri)} IN
    IF bad = {} THEN 0 ELSE Min(bad)

source_buffers ==
    /\ pc = "source_buffers"
    /\ LET root == Unwrap(json)
           n == Len(root.buffers)
           panics == BufferPanicsAt(root)
           visited == IF panics = 0 THEN n ELSE panics - 1
       IN
       /\ calls' = calls \o [i \in 1..visited |->
                                ExternalCall(Unwrap(root.buffers[i].uri),
                                             "buffers", i - 1)]
       /\ futures' = futures \o [i \in 1..visited |->
                                    NewFuture(Unwrap(root.buffers[i].uri))]
       /\ IF panics = 0
          THEN /\ buffers' = [i \in 1..n |-> Len(futures) + i]
               /\ pc' = "source_images"
               /\ result' = result
          ELSE /\ buffers' = buffers
               /\ pc' = "panicked"
               /\ result' = Panic("unwrap")
    /\ UNCHANGED << inspected, config, gltf_future, data, path, json, images, joined,
                    decoded >>

\* the format closure of source_images
Format(mime) ==
    CASE mime = "image/jpeg" -> "Jpeg"
      [] mime = "image/png" -> "Png"

\* Does building the AsyncImage of this entry panic?  unreachable!() on an
\* unrecognised MIME type, the index into buffer_views, format.unwrap(),
\* unreachable!() on an entry with neither uri nor buffer view.
ImagePanics(root, e) ==
    \/ IsSome(e.mime_type) /\ Unwrap(e.mime_type) \notin RecognisedMimeTypes
    \/ /\ IsNone(e.uri)
       /\ \/ IsNone(e.buffer_view)
          \/ Unwrap(e.buffer_view) >= Len(root.buffer_views)
          \/ IsNone(e.mime_type)

ImagePanicsAt(root) ==
    LET bad == {j \in 1..Len(root.images) : ImagePanics(root, root.images[j])} IN
    IF bad = {} THEN 0 ELSE Min(bad)

\* the AsyncImage of an entry that does not panic; future is the position in
\* futures of the fetch made for it (Owned)
AsyncImage(root, e, future) ==
    LET format == IF IsSome(e.mime_type)
                  THEN Some(Format(Unwrap(e.mime_type)))
                  ELSE None
    IN
    IF IsSome(e.uri)
    THEN [kind |-> "Owned", data |-> Some(future),
          index |-> 0, offset |-> 0, len |-> 0, format |-> format]
    ELSE LET buffer_view == root.buffer_views[Unwrap(e.buffer_view) + 1] IN
         [kind |-> "Borrowed", data |-> None,
          index |-> buffer_view.buffer,
          offset |-> buffer_view.byte_offset,
          len |-> buffer_view.byte_length,
          format |-> format]

\* source_images that runs only once every buffer fetch has completed: the
\* image fetches are issued after the buffers have been awaited
source_images_after_buffers ==
    /\ pc = "source_images"
    /\ \A k \in 1..Len(futures) : futures[k].state = "ready"
    /\ LET root == Unwrap(json)
           n == Len(root.images)
           hasUri == [j \in 1..n |-> IsSome(root.images[j].uri)]
           fetched == PositionsBefore(hasUri, 1, n + 1)
           futureOf(j) == Len(futures) + Len(PositionsBefore(hasUri, 1, j + 1))
       IN
       /\ ImagePanicsAt(root) = 0
       /\ calls' = calls \o [k \in 1..Len(fetched) |->
                                ExternalCall(Unwrap(root.images[fetched[k]].uri),
                                             "images", fetched[k] - 1)]
       /\ futures' = futures \o [k \in 1..Len(fetched) |->
                                    NewFuture(Unwrap(root.images[fetched[k]].uri))]
       /\ images' = [j \in 1..n |-> AsyncImage(root, root.images[j], futureOf(j))]
       /\ pc' = "join"
    /\ UNCHANGED << inspected, config, gltf_future, data, path, json, buffers, joined,
                    decoded, result >>

source_images ==
    /\ pc = "source_images"
    /\ LET root == Unwrap(json)
           n == Len(root.images)
           panics == ImagePanicsAt(root)
           stop == IF panics = 0 THEN n + 1 ELSE panics
           hasUri == [j \in 1..n |-> IsSome(root.images[j].uri)]
           fetched == PositionsBefore(hasUri, 1, stop)
           \* the position in futures of the fetch made for entry j
           futureOf(j) == Len(futures) + Len(PositionsBefore(hasUri, 1, j + 1))
       IN
       /\ calls' = calls \o [k \in 1..Len(fetched) |->
                                ExternalCall(Unwrap(root.images[fetched[k]].uri),
                                             "images", fetched[k] - 1)]
       /\ futures' = futures \o [k \in 1..Len(fetched) |->
                                    NewFuture(Unwrap(root.images[fetched[k]].uri))]
       /\ IF panics = 0
          THEN /\ images' = [j \in 1..n |->
                                AsyncImage(root, root.images[j], futureOf(j))]
               /\ pc' = "join"
               /\ result' = result
          ELSE /\ images' = images
               /\ pc' = "panicked"
               /\ result' = Panic("source_images")
    /\ UNCHANGED << inspected, config, gltf_future, data, path, json, buffers, joined,
                    decoded >>

\* A future returned by source_external_data resolves: to n bytes or to an
\* error.  The source may complete a fetch as soon as it has handed out the
\* future, while source_images is still to run; the futures are first polled
\* by the join.
source_external_data_resolves ==
    /\ pc \in {"source_images", "join"}
    /\ \E k \in 1..Len(futures) :
          /\ futures[k].state = "pending"
          /\ \/ \E n \in 1..MaxLen :
                   futures' = [futures EXCEPT ![k].state = "ready", ![k].len = n]
             \/ futures' = [futures EXCEPT ![k].state = "failed"]
    /\ UNCHANGED << inspected, pc, config, gltf_future, data, path, json, calls, buffers,
                    images, joined, decoded, result >>

\* data::Async::poll on the future at position k of futures: the Data it
\* yields, and the error it yields (the source's error, which is the error
\* of call k + 1 of calls, delivered through the sharing layer).
AsyncData(k) == FetchedBytes(futures[k].uri, futures[k].len)
AsyncError(k) == ErrorShared(ErrorSource(k + 1))

\* AsyncImage::poll of a resolved image: the EncodedImage
EncodedImage(image) ==
    [kind |-> image.kind,
     data |-> IF image.kind = "Owned" THEN AsyncData(Unwrap(image.data)) ELSE << >>,
     index |-> image.index, offset |-> image.offset, len |-> image.len,
     format |-> image.format]

\* the futures the join polls, in the order it polls them: join_all(buffers),
\* then join_all(images) (a Borrowed image is ready at once)
Polled ==
    buffers
    \o Concat([j \in 1..Len(images) |->
                  IF images[j].kind = "Owned" THEN images[j].data ELSE << >>])

\* a join that, finding a failed future, reports the first future it polls
FirstFailedBlamesFirst(polled) ==
    IF \E p \in 1..Len(polled) : futures[polled[p]].state = "failed" THEN 1 ELSE 0

\* the position in Polled of the first future found failed, or 0
FirstFailed(polled) ==
    LET failed == {p \in 1..Len(polled) : futures[polled[p]].state = "failed"} IN
    IF failed = {} THEN 0 ELSE Min(failed)

\* a join that hands on the buffers last entry first
JoinedBuffersReversed ==
    [buffers |-> [i \in 1..Len(buffers) |-> AsyncData(buffers[Len(buffers) + 1 - i])],
     images |-> [j \in 1..Len(images) |-> EncodedImage(images[j])]]

\* what the join hands to the decode closure
Joined ==
    [buffers |-> [i \in 1..Len(buffers) |-> AsyncData(buffers[i])],
     images |-> [j \in 1..Len(images) |-> EncodedImage(images[j])]]

\* a join that waits for every future and hands on whatever it resolved to,
\* a failed fetch as an empty blob
poll_join_ignoring_errors ==
    /\ pc = "join"
    /\ IF \A p \in 1..Len(Polled) : futures[Polled[p]].state # "pending"
       THEN /\ joined' = Joined
            /\ pc' = "decode_images"
       ELSE UNCHANGED << pc, joined >>
    /\ UNCHANGED << inspected, result, config, gltf_future, data, path, json,
                    calls, futures, buffers, images, decoded >>

\* a join that waits for the buffers only and hands on the images as they
\* are, a fetch still in flight as an empty blob
poll_join_buffers_only ==
    /\ pc = "join"
    /\ LET failed == FirstFailed(buffers) IN
       IF failed > 0
       THEN /\ result' = Err(AsyncError(buffers[failed]))
            /\ pc' = "done"
            /\ joined' = joined
       ELSE IF \A p \in 1..Len(buffers) : futures[buffers[p]].state = "ready"
       THEN /\ joined' = Joined
            /\ pc' = "decode_images"
            /\ result' = result
       ELSE UNCHANGED << pc, joined, result >>
    /\ UNCHANGED << inspected, config, gltf_future, data, path, json, calls, futures,
                    buffers, images, decoded >>

\* poll of future::ok(root).join3(join_all(buffers), join_all(images))
poll_join ==
    /\ pc = "join"
    /\ LET failed == FirstFailed(Polled) IN
       IF failed > 0
       THEN /\ result' = Err(AsyncError(Polled[failed]))
            /\ pc' = "done"
            /\ joined' = joined
       ELSE IF \A p \in 1..Len(Polled) : futures[Polled[p]].state = "ready"
       THEN /\ joined' = Joined
            /\ pc' = "decode_images"
            /\ result' = result
       ELSE UNCHANGED << pc, joined, result >>
    /\ UNCHANGED << inspected, config, gltf_future, data, path, json, calls, futures,
                    buffers, images, decoded >>

(* stage 4: decode images *)

\* Does computing the decoder input of this EncodedImage panic?  The index
\* into buffers, or the slice offset..(offset + len) of the buffer.
DecodePanics(bufs, e) ==
    /\ e.kind = "Borrowed"
    /\ \/ e.index >= Len(bufs)
       \/ e.offset + e.len > Len(bufs[e.index + 1])

\* a decoder input that takes the whole buffer for a borrowed image
DecoderInputWholeBuffer(bufs, e) ==
    [bytes |-> IF e.kind = "Borrowed" THEN bufs[e.index + 1] ELSE e.data,
     format |-> e.format]

\* the bytes and the format the decoder is invoked with; None is
\* load_from_memory, which guesses the format
DecoderInput(bufs, e) ==
    IF e.kind = "Borrowed"
    THEN [bytes |-> SubSeq(bufs[e.index + 1], e.offset + 1, e.offset + e.len),
          format |-> e.format]
    ELSE [bytes |-> e.data, format |-> e.format]

DecodePanicsAt(bufs, encoded) ==
    LET bad == {j \in 1..Len(encoded) : DecodePanics(bufs, encoded[j])} IN
    IF bad = {} THEN 0 ELSE Min(bad)

\* decode_images and the closure around it: the images are decoded in
\* order, and collecting into a Result stops at the first decoder error.
\* fails is the position of the first image the decoder rejects, or 0.
decode_images ==
    /\ pc = "decode_images"
    /\ \E fails \in 0..Len(joined.images) :
          LET bufs == joined.buffers
              encoded == joined.images
              panics == DecodePanicsAt(bufs, encoded)
              panicked == panics > 0 /\ (fails = 0 \/ panics <= fails)
              last == IF panicked THEN panics - 1
                      ELSE IF fails > 0 THEN fails ELSE Len(encoded)
          IN
          /\ decoded' = [j \in 1..last |-> DecoderInput(bufs, encoded[j])]
          /\ IF panicked
             THEN /\ pc' = "panicked"
                  /\ result' = Panic("decode_images")
             ELSE IF fails > 0
             THEN /\ pc' = "done"
                  /\ result' = Err(ErrorDecode(fails - 1))
             ELSE /\ pc' = "assemble"
                  /\ result' = result
    /\ UNCHANGED << inspected, config, gltf_future, data, path, json, calls, futures,
                    buffers, images, joined >>

\* stage 5, the last and_then closure: Ok(Gltf::new(root))
assemble ==
    /\ pc = "assemble"
    /\ result' = Ok
    /\ pc' = "done"
    /\ UNCHANGED << inspected, config, gltf_future, data, path, json, calls, futures,
                    buffers, images, joined, decoded >>

(* ---------------------------- Import::poll ----------------------------- *)

\* a poll after completion that starts the import over
poll_completed_restarts ==
    /\ pc = "done"
    /\ calls' = Append(calls, [op |-> "source_gltf", uri |-> None,
                                  field |-> "root", index |-> 0])
    /\ gltf_future' = "pending"
    /\ pc' = "source_gltf"
    /\ UNCHANGED << inspected, result, config, data, path, json, futures,
                    buffers, images, joined, decoded >>

\* Import::poll after it has returned Ready or Err: it polls the boxed
\* and_then chain again, which panics when polled after completion.  The
\* task is then at "repolled"; result stays what the first poll returned.
poll_completed ==
    /\ pc = "done"
    /\ pc' = "repolled"
    /\ UNCHANGED << inspected, result, config, gltf_future, data, path, json, calls, futures,
                    buffers, images, joined, decoded >>

Next ==
    \/ custom
    \/ source_gltf_resolves
    \/ poll_source_gltf
    \/ binary_import
    \/ parse
    \/ validate
    \/ source_buffers
    \/ source_images
    \/ source_external_data_resolves
    \/ poll_join
    \/ decode_images
    \/ assemble
    \/ poll_completed

Spec == Init /\ [][Next]_vars

(* ------------------------- std::error::Error -------------------------- *)

\* Error::description
description(e) ==
    CASE e.variant = "Decode" -> "Image decoding failed"
      [] e.variant = "ExtensionDisabled" -> "Asset requires a disabled extension"
      [] e.variant = "ExtensionUnsupported" -> "Assets requires an unsupported extension"
      [] e.variant = "IncompatibleVersion" -> "Asset is not glTF version 2.0"
      [] e.variant = "Io" -> "I/O error"
      [] e.variant = "MalformedGlb" -> "Malformed .glb file"
      [] e.variant = "MalformedJson" -> "Malformed .gltf / .glb JSON"
      [] e.variant = "Source" -> "Data source error"
      [] e.variant = "Shared" -> "Shared error"
      [] e.variant = "Validation" -> "Asset failed validation tests"

\* cause without the Source arm
cause_without_source(e) ==
    CASE e.variant = "MalformedJson" -> e.wrapped
      [] e.variant = "Io" -> e.wrapped
      [] OTHER -> None

\* Error::cause
cause(e) ==
    CASE e.variant = "MalformedJson" -> e.wrapped
      [] e.variant = "Io" -> e.wrapped
      [] e.variant = "Source" -> e.wrapped
      [] OTHER -> None

\* The Error values: every variant with each of a few payloads.
Texts == 0..MaxImages
SourceCalls == 1..(1 + MaxBuffers + MaxImages)
SomeViolations == {Violation("images", j, "uri", "Missing") : j \in 0..(MaxImages - 1)}
ErrorValues ==
    {ErrorDecode(j) : j \in 0..(MaxImages - 1)}
    \cup {Error(v, Some(t), << >>, None) :
            v \in {"ExtensionDisabled", "ExtensionUnsupported",
                   "IncompatibleVersion", "Io", "MalformedGlb", "MalformedJson"},
            t \in Texts}
    \cup {ErrorSource(c) : c \in SourceCalls}
    \cup {ErrorShared(ErrorSource(c)) : c \in SourceCalls}
    \cup {ErrorValidation(errs) : errs \in SeqUpTo(SomeViolations, MaxImages) \ {<< >>}}

\* an Error in the caller's hands
ErrorInit ==
    /\ pc = "error"
    /\ inspected \in {Inspect(e) : e \in ErrorValues}
    /\ config = [validation_strategy |-> "Skip"]
    /\ gltf_future = "none"
    /\ data = NoData
    /\ path = "none"
    /\ json = None
    /\ calls = << >>
    /\ futures = << >>
    /\ buffers = << >>
    /\ images = << >>
    /\ joined = NotJoined
    /\ decoded = << >>
    /\ result = Err(inspected.error)

error_description ==
    /\ pc = "error"
    /\ inspected' = [inspected EXCEPT !.description = description(inspected.error),
                                      !.asked = @ \cup {"description"}]
    /\ UNCHANGED << pc, config, gltf_future, data, path, json, calls, futures,
                    buffers, images, joined, decoded, result >>

error_cause ==
    /\ pc = "error"
    /\ inspected' = [inspected EXCEPT !.cause = cause(inspected.error),
                                      !.asked = @ \cup {"cause"}]
    /\ UNCHANGED << pc, config, gltf_future, data, path, json, calls, futures,
                    buffers, images, joined, decoded, result >>

ErrorNext == error_description \/ error_cause

ErrorSpec == ErrorInit /\ [][ErrorNext]_vars

(* ------------------------------- claims -------------------------------- *)

\* the import has ended: poll has returned Ready or Err, or panicked
Returned == pc \in {"done", "repolled"}
Ended == pc \in {"done", "repolled", "panicked"}

\* the positions of the standard import pipeline
StandardStages == {"parse", "validate", "source_buffers", "source_images",
                   "join", "decode_images", "assemble", "panicked"}

\* the bytes begin with the four ASCII bytes "glTF"
HasMagicTag(bytes) ==
    /\ Len(bytes) >= 4
    /\ bytes[1] = 103 /\ bytes[2] = 108 /\ bytes[3] = 84 /\ bytes[4] = 70

\* C1: Import::custom enters exactly one import path for the root bytes:
\* the binary path if and only if the bytes begin with "glTF" (a function
\* of the first four bytes; fewer than four bytes go to the standard path),
\* and the JSON parse is never run on bytes that begin with the tag.
C1_DispatchByMagicTag ==
    /\ pc \in {"new", "source_gltf"} => path = "none"
    /\ pc \in {"binary", "parse"} =>
          /\ path \in {"binary", "standard"}
          /\ path = "binary" <=> HasMagicTag(data.head)
          /\ pc = "binary" <=> path = "binary"
    /\ pc = "parse" => ~HasMagicTag(data.head)
    /\ pc \in StandardStages => path = "standard"
    /\ IsSome(json) => path = "standard"

\* tagged bytes followed by more bytes have entered the binary path
C1_Witness ==
    /\ pc = "binary"
    /\ Len(data.head) > 4
    /\ HasMagicTag(data.head)

\* C2: with Skip, a root that deserializes and whose fetches and decodes
\* all succeed imports successfully, whatever schema violations it has.
C2_SkipImportSucceeds ==
    ( /\ config.validation_strategy = "Skip"
      /\ IsSome(json)
      /\ Ended
      /\ \A k \in 1..Len(futures) : futures[k].state # "failed"
      /\ result.error.variant # "Decode" )
    => result.state = "ok"

\* C3: every outcome of an import is a returned value, Ok(Gltf) or
\* Err(Error): driving the import never ends in a panic.
C3_NoAbruptTermination == pc # "panicked"

\* the positions in calls of the source_external_data calls for a URI
CallsFor(uri) ==
    {k \in 1..Len(calls) :
        calls[k].op = "source_external_data" /\ calls[k].uri = Some(uri)}

\* the positions in calls of the calls made for entry index of field
CallsOf(field, index) ==
    {k \in 1..Len(calls) : calls[k].field = field /\ calls[k].index = index}

\* C4: references of one document that name the same URI share one fetch:
\* source_external_data is invoked exactly once for that URI.
C4_OneFetchPerUri ==
    \A uri \in BufferURIs \cup ImageURIs : Cardinality(CallsFor(uri)) <= 1

\* the import has reached the resolve stage and source_buffers has run
ReachedResolve ==
    \/ pc \in {"source_images", "join", "decode_images", "assemble", "panicked"}
    \/ Returned /\ IsSome(json)
                /\ (result.state = "ok" \/ result.error.variant \in {"Shared", "Decode"})

\* C5: in every import that reaches the resolve stage, source_external_data
\* is invoked exactly once per buffer entry that has a URI, and an image that
\* borrows a buffer-view range causes no source call of its own.
C5_OneFetchPerBufferEntry ==
    ReachedResolve =>
        LET root == Unwrap(json) IN
        /\ \A i \in 1..Len(root.buffers) :
              IsSome(root.buffers[i].uri) =>
                  Cardinality(CallsOf("buffers", i - 1)) = 1
        /\ \A j \in 1..Len(root.images) :
              IsNone(root.images[j].uri) => CallsOf("images", j - 1) = {}

\* what the validator of the configured strategy reports for the document
Reported ==
    IF config.validation_strategy = "Minimal"
    THEN validate_minimally(Unwrap(json))
    ELSE validate_completely(Unwrap(json))

\* C6: with Minimal or Complete the import fails with Error::Validation if
\* and only if the validator reported a violation, and the error carries
\* every reported (path, violation) pair in the order reported; with no
\* violation the pipeline goes on with the document.
C6_ValidationCarriesAllViolations ==
    ( /\ config.validation_strategy \in {"Minimal", "Complete"}
      /\ IsSome(json)
      /\ pc # "validate" )
    => IF Reported # << >>
       THEN /\ Returned
            /\ result.state = "err"
            /\ result.error.variant = "Validation"
            /\ result.error.errs = Reported
       ELSE /\ result.error.variant # "Validation"
            /\ pc = "done" => Len(calls) >= 1 + Len(Unwrap(json).buffers)

\* an import has failed with two violations, both carried
C6_Witness ==
    /\ pc = "done"
    /\ config.validation_strategy = "Complete"
    /\ result.error.variant = "Validation"
    /\ Len(result.error.errs) >= 2
    /\ result.error.errs[1] # result.error.errs[2]

\* the document has an image entry with neither a uri nor a buffer view
HasSourcelessImage ==
    /\ IsSome(json)
    /\ \E j \in 1..Len(Unwrap(json).images) :
          /\ IsNone(Unwrap(json).images[j].uri)
          /\ IsNone(Unwrap(json).images[j].buffer_view)

\* C7: an image entry with neither a uri nor a buffer view makes the import
\* fail with Error::Validation under every strategy, never with a panic.
C7_SourcelessImageFailsValidation ==
    (HasSourcelessImage /\ Ended) =>
        /\ pc # "panicked"
        /\ result.state = "err"
        /\ result.error.variant = "Validation"

ImageFetchFailed ==
    \E k \in 1..Len(futures) :
        /\ futures[k].state = "failed"
        /\ calls[k + 1].field = "images"

\* C9 as stated: a failed image fetch makes the import fail with
\* Error::Source, and no image is decoded.
C9_ImageFetchErrorIsSource ==
    ImageFetchFailed =>
        /\ decoded = << >>
        /\ Returned => (result.state = "err" /\ result.error.variant = "Source")

\* C9, amended: a failed image fetch makes the import fail with
\* Error::Shared, the envelope of an Error::Source that carries the error of
\* a fetch that failed, and decode_images is never called.
C9_ImageFetchErrorIsShared ==
    ImageFetchFailed =>
        /\ decoded = << >>
        /\ pc \in {"join", "done", "repolled"}
        /\ Returned =>
              /\ result.state = "err"
              /\ result.error.variant = "Shared"
              /\ result.error.inner = Some("Source")
              /\ IsSome(result.error.wrapped)
              /\ futures[Unwrap(result.error.wrapped) - 1].state = "failed"

\* an import failed on an image fetch while another fetch had succeeded
C9_Witness ==
    /\ pc = "done"
    /\ ImageFetchFailed
    /\ \E k \in 1..Len(futures) : futures[k].state = "ready"

\* C10: description() is a non-empty string fixed by the variant, and
\* cause() is the wrapped error for Io, MalformedJson and Source and None
\* for every other variant.
C10_DescriptionAndCause ==
    LET e == inspected.error IN
    /\ "description" \in inspected.asked =>
          /\ inspected.description # ""
          /\ \A other \in ErrorValues :
                other.variant = e.variant => description(other) = inspected.description
    /\ "cause" \in inspected.asked =>
          IF e.variant \in {"Io", "MalformedJson", "Source"}
          THEN IsSome(inspected.cause) /\ inspected.cause = e.wrapped
          ELSE inspected.cause = None

\* a Source error was asked for its description and its cause
C10_Witness ==
    /\ inspected.asked = {"description", "cause"}
    /\ inspected.error.variant = "Source"
    /\ IsSome(inspected.cause)

\* the root deserialized to a document without buffer and image entries
NoExternalData ==
    /\ IsSome(json)
    /\ Unwrap(json).buffers = << >>
    /\ Unwrap(json).images = << >>

\* C11: with Skip, a JSON root without buffer and image entries imports
\* successfully with one source_gltf call and no source_external_data call,
\* and the join over the empty lists completes at its first poll.
C11_EmptyRootSkipSucceeds ==
    (config.validation_strategy = "Skip" /\ NoExternalData) =>
        /\ pc # "panicked"
        /\ Returned => result = Ok
        /\ Len(calls) = 1
        /\ calls[1].op = "source_gltf"
        /\ futures = << >>
        /\ pc = "join" =>
              /\ Polled = << >>
              /\ ENABLED (poll_join /\ pc' = "decode_images")

\* such an import has returned its Gltf (the document has a buffer view,
\* which nothing checks)
C11_Witness ==
    /\ config.validation_strategy = "Skip"
    /\ NoExternalData
    /\ Unwrap(json).buffer_views # << >>
    /\ pc = "done"
    /\ result = Ok

(* ---------------------------- Import::sync ----------------------------- *)

\* A step of the import task under Import::sync: wait() polls the Import
\* until the poll returns Ready or Err and then returns; sync consumes the
\* Import, so no poll follows the completion.
sync ==
    \/ custom
    \/ poll_source_gltf
    \/ binary_import
    \/ parse
    \/ validate
    \/ source_buffers
    \/ source_images
    \/ poll_join
    \/ decode_images
    \/ assemble

SyncNext ==
    \/ sync
    \/ source_gltf_resolves
    \/ source_external_data_resolves

\* wait() keeps polling the task while it can make a step, and every future
\* the source has handed out eventually resolves.
SyncSpec ==
    /\ Init
    /\ [][SyncNext]_vars
    /\ WF_vars(sync)
    /\ WF_vars(source_gltf_resolves)
    /\ WF_vars(source_external_data_resolves)

\* C12: under Import::sync, when the source's futures have resolved and
\* the task can make no further step, the import has resolved to Ok or Err:
\* it does not stay pending and does not end otherwise.
C12_SyncCompletes ==
    (~ ENABLED << SyncNext >>_vars) => result.state \in {"ok", "err"}

\* Import::sync ends, in a return or in a panic
SyncEnds == <>(pc \in {"done", "panicked"})

\* the decode closure has been entered
DecodeStarted ==
    \/ pc \in {"decode_images", "assemble"}
    \/ result.state = "ok"
    \/ result.error.variant \in {"Decode", "decode_images"}

\* the number of buffer and image entries of the document that have a uri
UriEntries(root) ==
    Cardinality({i \in 1..Len(root.buffers) : IsSome(root.buffers[i].uri)})
    + Cardinality({j \in 1..Len(root.images) : IsSome(root.images[j].uri)})

\* C13: the stages of the standard import run in order: validation starts
\* with the parsed document, a source_external_data call is made only after
\* validation has completed successfully, and decode_images starts only
\* after every buffer fetch and every image resolution has succeeded.
C13_StagesInOrder ==
    /\ pc = "parse" => json = None /\ Len(calls) = 1
    /\ pc = "validate" => IsSome(json) /\ data = NoData /\ Len(calls) = 1
    /\ Len(calls) > 1 =>
          /\ IsSome(json)
          /\ pc \notin {"new", "source_gltf", "binary", "parse", "validate"}
          /\ config.validation_strategy # "Skip" => Reported = << >>
    /\ DecodeStarted =>
          /\ IsSome(json)
          /\ Len(futures) = UriEntries(Unwrap(json))
          /\ Len(buffers) = Len(Unwrap(json).buffers)
          /\ Len(images) = Len(Unwrap(json).images)
          /\ \A k \in 1..Len(futures) : futures[k].state = "ready"
    /\ ~ DecodeStarted => decoded = << >>

\* images are being decoded after a buffer fetch, an image fetch and the
\* resolution of a borrowed image
C13_Witness ==
    /\ pc = "assemble"
    /\ Len(decoded) = 2
    /\ Len(futures) = 2
    /\ \E j \in 1..2 : images[j].kind = "Borrowed"
    /\ config.validation_strategy = "Complete"

\* the fetches that have failed, as positions in futures
FailedFetches == {k \in 1..Len(futures) : futures[k].state = "failed"}

\* what a returned error tells about the import: the stage that failed, and
\* that no later stage has acted
ErrorOfFailingStage(r) ==
    LET v == r.error.variant IN
    /\ v \in {"Source", "MalformedGlb", "MalformedJson", "Validation", "Shared",
              "Decode"}
    /\ v = "Source" =>
          /\ gltf_future = "failed"
          /\ r.error.wrapped = Some(1)
          /\ path = "none" /\ json = None /\ Len(calls) = 1
    /\ v = "MalformedGlb" => path = "binary" /\ json = None /\ Len(calls) = 1
    /\ v = "MalformedJson" => path = "standard" /\ json = None /\ Len(calls) = 1
    /\ v = "Validation" =>
          /\ IsSome(json)
          /\ r.error.errs # << >>
          /\ Len(calls) = 1
    /\ v = "Shared" =>
          /\ r.error.inner = Some("Source")
          /\ Unwrap(r.error.wrapped) - 1 \in FailedFetches
    /\ v \in {"Source", "MalformedGlb", "MalformedJson", "Validation", "Shared"} =>
          /\ joined = NotJoined
          /\ decoded = << >>
    /\ v = "Decode" =>
          /\ FailedFetches = {}
          /\ Len(decoded) = Unwrap(r.error.wrapped) + 1

\* C14: an error ends the import: the result is the error of the stage that
\* failed (for fetches, of a fetch that did fail), nothing of a later stage
\* has happened or happens afterwards, and an import with a failed fetch does
\* not succeed.
C14_FailFast ==
    [][ /\ result'.state = "err" => ErrorOfFailingStage(result)'
        /\ result'.state = "ok" => FailedFetches' = {}
        /\ result.state = "err" =>
              UNCHANGED << result, gltf_future, data, path, json, calls, futures,
                           buffers, images, joined, decoded >>
        /\ (FailedFetches # {} /\ pc = "join") => pc' \in {"join", "done"}
      ]_vars

\* two fetches have failed and the import has returned the error of one
C14_Witness ==
    /\ pc = "repolled"
    /\ result.error.variant = "Shared"
    /\ Cardinality(FailedFetches) = 2
    /\ \E k \in 1..Len(futures) : futures[k].state = "ready"

\* the place of a source_external_data call in the launch order: the buffer
\* entries in document order, then the image entries in document order
LaunchRank(call) ==
    IF call.field = "buffers" THEN call.index ELSE MaxBuffers + call.index

\* the join of the resolve stage has been polled: the fetches are awaited
Awaited ==
    \/ pc \in {"join", "decode_images", "assemble"}
    \/ result.state = "ok"
    \/ result.error.variant \in {"Shared", "Decode", "decode_images"}

\* C15: every fetch is launched before any is awaited: the calls are made
\* for the buffer entries and then for the image entries with a uri, each in
\* document order, none waits for a fetch to complete, all have been made
\* when the join is polled, and a borrowed image needs no call and is ready
\* when polled.
C15_FetchesLaunchedTogether ==
    /\ \A k \in 2..Len(calls) :
          /\ calls[k].op = "source_external_data"
          /\ calls[k].field \in {"buffers", "images"}
          /\ calls[k].uri = Unwrap(json)[calls[k].field][calls[k].index + 1].uri
          /\ k > 2 => LaunchRank(calls[k - 1]) < LaunchRank(calls[k])
    /\ pc = "source_buffers" => ENABLED << source_buffers >>_vars
    /\ pc = "source_images" => ENABLED << source_images >>_vars
    /\ Awaited =>
          /\ Len(calls) = 1 + UriEntries(Unwrap(json))
          /\ \A j \in 1..Len(images) :
                images[j].kind = "Borrowed" => CallsOf("images", j - 1) = {}
    /\ (pc = "join" /\ \A k \in 1..Len(futures) : futures[k].state = "ready") =>
          ENABLED (poll_join /\ pc' = "decode_images")

\* two buffer fetches and an image fetch are in flight, none has completed,
\* and the join is to be polled; the other image is borrowed
C15_Witness ==
    /\ pc = "join"
    /\ Len(futures) = 3
    /\ \A k \in 1..Len(futures) : futures[k].state = "pending"
    /\ \E j \in 1..Len(images) : images[j].kind = "Borrowed"

\* the bytes the source returned for the call made for entry index of field
BytesFetchedFor(field, index) ==
    LET k == CHOOSE c \in CallsOf(field, index) : TRUE IN
    [n \in 1..futures[k - 1].len |-> << Unwrap(calls[k].uri), n >>]

\* C16: what the decode stage is handed is aligned with the document:
\* buffers[i] is what was fetched for buffer entry i, image descriptor j is
\* that of image entry j, and a borrowed image is cut out of the bytes of the
\* buffer its buffer view names.
C16_PositionalAlignment ==
    DecodeStarted =>
        LET root == Unwrap(json) IN
        /\ Len(joined.buffers) = Len(root.buffers)
        /\ Len(joined.images) = Len(root.images)
        /\ \A i \in 1..Len(root.buffers) :
              /\ Cardinality(CallsOf("buffers", i - 1)) = 1
              /\ calls[CHOOSE c \in CallsOf("buffers", i - 1) : TRUE].uri
                     = root.buffers[i].uri
              /\ joined.buffers[i] = BytesFetchedFor("buffers", i - 1)
        /\ \A j \in 1..Len(root.images) :
              LET entry == root.images[j]
                  image == joined.images[j]
              IN
              IF IsSome(entry.uri)
              THEN /\ image.kind = "Owned"
                   /\ calls[CHOOSE c \in CallsOf("images", j - 1) : TRUE].uri
                          = entry.uri
                   /\ image.data = BytesFetchedFor("images", j - 1)
              ELSE LET view == root.buffer_views[Unwrap(entry.buffer_view) + 1] IN
                   /\ image.kind = "Borrowed"
                   /\ image.index = view.buffer
                   /\ image.offset = view.byte_offset
                   /\ image.len = view.byte_length
                   /\ j <= Len(decoded) =>
                         decoded[j].bytes =
                             SubSeq(BytesFetchedFor("buffers", view.buffer),
                                    view.byte_offset + 1,
                                    view.byte_offset + view.byte_length)

\* an image borrowed from the second of two buffers, which were fetched from
\* different URIs and came back with different lengths, has been decoded
C16_Witness ==
    /\ pc = "assemble"
    /\ Len(joined.buffers) = 2
    /\ Unwrap(json).buffers[1].uri # Unwrap(json).buffers[2].uri
    /\ Len(joined.buffers[1]) # Len(joined.buffers[2])
    /\ \E j \in 1..Len(decoded) :
          joined.images[j].kind = "Borrowed" /\ joined.images[j].index = 1

\* C17: decoder invocation j is made for descriptor j: a Borrowed descriptor
\* decodes the bytes [offset, offset + len) of buffers[index] with the
\* declared format, an Owned one the whole fetched bytes with its format, or
\* with format detection when it declares none; a decoder failure ends the
\* import with Error::Decode, and a Gltf is returned only when every image
\* has been decoded.
C17_DecoderInputs ==
    /\ Len(decoded) <= Len(joined.images)
    /\ \A j \in 1..Len(decoded) :
          LET e == joined.images[j]
              d == decoded[j]
          IN
          /\ d.format = e.format
          /\ e.kind = "Borrowed" =>
                /\ IsSome(d.format)
                /\ Len(d.bytes) = e.len
                /\ \A n \in 1..e.len :
                      d.bytes[n] = joined.buffers[e.index + 1][e.offset + n]
          /\ e.kind = "Owned" => d.bytes = e.data
    /\ result.error.variant = "Decode" =>
          /\ result.state = "err"
          /\ Returned
          /\ Len(decoded) = Unwrap(result.error.wrapped) + 1
    /\ (pc = "assemble" \/ result.state = "ok") => Len(decoded) = Len(joined.images)

\* a borrowed image at offset 1 of a buffer of two bytes and an owned image
\* without a declared format have been decoded
C17_Witness ==
    /\ pc = "assemble"
    /\ \E j \in 1..Len(decoded) :
          /\ joined.images[j].kind = "Borrowed"
          /\ joined.images[j].offset = 1
          /\ Len(joined.buffers[joined.images[j].index + 1]) = 2
    /\ \E j \in 1..Len(decoded) :
          joined.images[j].kind = "Owned" /\ IsNone(decoded[j].format)

\* C18: root bytes without the binary tag that do not deserialize end the
\* import with Error::MalformedJson, whatever the validation strategy: the
\* document is not validated and no source_external_data call is made.
C18_MalformedJsonEndsImport ==
    [][ /\ (pc = "parse" /\ IsNone(from_reader(data))) =>
              /\ ~ HasMagicTag(data.head)
              /\ pc' = "done"
              /\ result' = Err(ErrorMalformedJson)
              /\ json' = None
              /\ calls' = calls
        /\ result'.error.variant = "MalformedJson" =>
              /\ result'.state = "err"
              /\ IsSome(result'.error.wrapped)
              /\ json' = None
              /\ Len(calls') = 1
              /\ futures' = << >>
              /\ pc' \in {"done", "repolled"}
      ]_vars

\* bytes that are not JSON have ended an import that skips validation
C18_Witness ==
    /\ pc = "done"
    /\ config.validation_strategy = "Skip"
    /\ result = Err(ErrorMalformedJson)
    /\ calls = << [op |-> "source_gltf", uri |-> None, field |-> "root", index |-> 0] >>

\* C19: when the future returned by source_gltf resolves to an error, the
\* import fails with Error::Source carrying that error: neither import path
\* is entered and source_external_data is never invoked.
C19_RootFetchErrorIsSource ==
    [][ /\ (pc = "source_gltf" /\ gltf_future = "failed") =>
              /\ pc' = "done"
              /\ result' = Err(ErrorSource(1))
        /\ gltf_future' = "failed" =>
              /\ pc' \in {"source_gltf", "done", "repolled"}
              /\ path' = "none"
              /\ json' = None
              /\ Len(calls') = 1
              /\ futures' = << >>
              /\ pc' # "source_gltf" => result' = Err(ErrorSource(1))
        /\ result'.error.variant = "Source" =>
              /\ gltf_future' = "failed"
              /\ calls'[Unwrap(result'.error.wrapped)].op = "source_gltf"
      ]_vars

\* the root fetch has failed and the import has returned its error
C19_Witness ==
    /\ pc = "done"
    /\ gltf_future = "failed"
    /\ result.state = "err"
    /\ result.error.variant = "Source"

\* C20 as stated: until an import is polled with its root resolved, nothing
\* has been done: no dispatch, no parse, no validation, and no Source
\* operation, neither source_gltf nor source_external_data.
C20_NoWorkBeforePoll ==
    pc \in {"new", "source_gltf"} =>
        /\ path = "none"
        /\ json = None
        /\ result = Pending
        /\ futures = << >>
        /\ calls = << >>

\* C20, amended: constructing the Import invokes source_gltf once and does
\* nothing else; until a poll finds the root resolved there is no dispatch,
\* no parse, no validation and no source_external_data call.
C20_OnlyRootRequestedBeforePoll ==
    /\ pc = "new" => calls = << >>
    /\ pc = "source_gltf" =>
          /\ Len(calls) = 1
          /\ calls[1].op = "source_gltf"
    /\ pc \in {"new", "source_gltf"} =>
          /\ path = "none"
          /\ json = None
          /\ result = Pending
          /\ futures = << >>
    /\ path # "none" => gltf_future = "ready"

\* the root bytes have arrived at an Import that has not been polled since:
\* the source has been asked for the root and nothing else has happened
C20_Witness ==
    /\ pc = "source_gltf"
    /\ gltf_future = "ready"
    /\ IsSome(data.json)
    /\ path = "none"
    /\ Len(calls) = 1

=============================================================================
